---- MODULE Spec2Model ----
(***************************************************************************)
(* A model of backend/main.py: the PDF ingestion pipeline (upload_pdf),    *)
(* the query pipeline (ask_question), the maintenance endpoints (root,     *)
(* health_check, clear_collection) and the start-up routine                *)
(* ensure_collection, together with the two external services they call:  *)
(* the vector store (qdrant) and the embedding provider (embeddings).      *)
(*                                                                         *)
(* Text is modelled as TLA+ strings, so that concatenation, slicing and    *)
(* lengths are computed as the Python code computes them.  Every handler   *)
(* is "async def" and, after "await file.read()", only makes synchronous   *)
(* client calls, so one handler runs to its return before the event loop   *)
(* starts the next one: the model runs one request at a time, and takes    *)
(* one step per call to an external service.                               *)
(***************************************************************************)
EXTENDS Integers, Sequences, FiniteSets, TLC

(***************************************************************************)
(* Program constants (main.py, lines 28 and 88-92, 181-182, 195).          *)
(***************************************************************************)
MAX_FILE_SIZE == 10 * 1024 * 1024
CHUNK_SIZE == 800
CHUNK_OVERLAP == 100
EMBED_BATCH_SIZE == 50
UPSERT_BATCH_SIZE == 64
SEARCH_LIMIT == 5
ANSWER_LIMIT == 2000
\* score_threshold=0.1, in tenths of the similarity scale
SCORE_THRESHOLD == 1

(***************************************************************************)
(* Bounds of the model.                                                    *)
(***************************************************************************)
\* number of HTTP requests served after start-up
MaxRequests == 3
\* number of external calls (vector store, embedding provider) that raise
MaxFaults == 1

(***************************************************************************)
(* Python values.                                                          *)
(***************************************************************************)
\* Optional[str]: None is <<>>, a string s is <<s>>
None == <<>>
Some(s) == <<s>>

\* Truthy with the test "is not None" in place of truthiness
Truthy_notnone(o) == o # None

\* Python truthiness of an Optional[str]: None and "" are falsy
Truthy(o) == o # None /\ o[1] # ""

Min(a, b) == IF a < b THEN a ELSE b

\* s[a:b] of Python, 0-based, for 0 <= a and 0 <= b (bounds are clamped)
Slice(s, a, b) ==
    LET hi == Min(b, Len(s))
    IN  IF a >= hi THEN SubSeq(s, 1, 0) ELSE SubSeq(s, a + 1, hi)

\* the characters str.strip() removes that occur in the modelled texts
IsSpace(c) == c \in {" ", "\n", "\t"}

\* a run of blanks, skipped in one step by the two scans below
Blanks == "                                "

\* the first position from pos on that holds no whitespace, Len(s) + 1 if none
RECURSIVE LStripFrom(_, _)
LStripFrom(s, pos) ==
    IF pos > Len(s) THEN Len(s) + 1
    ELSE IF pos + Len(Blanks) - 1 <= Len(s) /\ SubSeq(s, pos, pos + Len(Blanks) - 1) = Blanks
    THEN LStripFrom(s, pos + Len(Blanks))
    ELSE IF IsSpace(SubSeq(s, pos, pos)) THEN LStripFrom(s, pos + 1) ELSE pos

\* the last position up to j that holds no whitespace, 0 if none
RECURSIVE RStripFrom(_, _)
RStripFrom(s, j) ==
    IF j < 1 THEN 0
    ELSE IF j - Len(Blanks) + 1 >= 1 /\ SubSeq(s, j - Len(Blanks) + 1, j) = Blanks
    THEN RStripFrom(s, j - Len(Blanks))
    ELSE IF IsSpace(SubSeq(s, j, j)) THEN RStripFrom(s, j - 1) ELSE j

\* str.strip()
strip(s) ==
    LET a == LStripFrom(s, 1)
    IN  IF a > Len(s) THEN "" ELSE SubSeq(s, a, RStripFrom(s, Len(s)))

\* sep.join(parts)
RECURSIVE join(_, _)
join(sep, parts) ==
    IF Len(parts) = 0 THEN ""
    ELSE IF Len(parts) = 1 THEN parts[1]
    ELSE parts[1] \o sep \o join(sep, Tail(parts))

(***************************************************************************)
(* Text extractor: lines 104-108 of upload_pdf.  pages is the sequence of  *)
(* results of page.extract_text(), each an Optional[str].                  *)
(***************************************************************************)
\* PageMarker with the 0-based index of enumerate as the page number
PageMarker_zero(idx) == "\n--- Page " \o ToString(idx) \o " ---\n"

PageMarker(idx) == "\n--- Page " \o ToString(idx + 1) \o " ---\n"

\* one iteration of the loop, idx the 0-based index of enumerate
ExtractPage(txt, idx, page_text) ==
    IF Truthy(page_text)
    THEN txt \o PageMarker(idx) \o page_text[1] \o "\n"
    ELSE txt

RECURSIVE ExtractFrom(_, _, _)
ExtractFrom(txt, pages, idx) ==
    IF idx >= Len(pages) THEN txt
    ELSE ExtractFrom(ExtractPage(txt, idx, pages[idx + 1]), pages, idx + 1)

ExtractText(pages) == ExtractFrom("", pages, 0)

(***************************************************************************)
(* Chunk splitter: splitter.split_text(text) with chunk_size=CHUNK_SIZE,   *)
(* chunk_overlap=CHUNK_OVERLAP, length_function=len.  The library is       *)
(* modelled on its last-resort separator "": windows of CHUNK_SIZE         *)
(* characters, each starting CHUNK_OVERLAP characters before the end of    *)
(* its predecessor, stripped of surrounding whitespace, empty ones dropped.*)
(***************************************************************************)
\* the number of windows that cover n characters
WindowCount(n) ==
    IF n = 0 THEN 0
    ELSE IF n <= CHUNK_SIZE THEN 1
    ELSE 1 + ((n - CHUNK_SIZE) + (CHUNK_SIZE - CHUNK_OVERLAP) - 1)
                 \div (CHUNK_SIZE - CHUNK_OVERLAP)

\* the k-th window (k from 1), stripped
Window(txt, k) ==
    LET start == (k - 1) * (CHUNK_SIZE - CHUNK_OVERLAP)
    IN  strip(Slice(txt, start, start + CHUNK_SIZE))

\* the non-empty windows lo..hi, in order
RECURSIVE Windows(_, _, _)
Windows(txt, lo, hi) ==
    IF lo > hi THEN <<>>
    ELSE IF lo = hi
    THEN IF Window(txt, lo) # "" THEN <<Window(txt, lo)>> ELSE <<>>
    ELSE Windows(txt, lo, (lo + hi) \div 2)
             \o Windows(txt, (lo + hi) \div 2 + 1, hi)

split_text(txt) == Windows(txt, 1, WindowCount(Len(txt)))

(***************************************************************************)
(* Embedding provider.  A vector is abstracted to the topic of its text:   *)
(* the first decimal digit that occurs in it (0 when there is none).  The  *)
(* similarity of two vectors falls with the distance of their topics and   *)
(* is expressed in tenths (10 is similarity 1.0).                          *)
(***************************************************************************)
Digits == <<"0", "1", "2", "3", "4", "5", "6", "7", "8", "9">>

DigitValue(c) == CHOOSE d \in 0..9 : Digits[d + 1] = c

IsDigit(c) == \E d \in 0..9 : Digits[d + 1] = c

RECURSIVE TopicFrom(_, _)
TopicFrom(s, pos) ==
    IF pos > Len(s) THEN 0
    ELSE IF IsDigit(SubSeq(s, pos, pos)) THEN DigitValue(SubSeq(s, pos, pos))
    ELSE TopicFrom(s, pos + 1)

\* embeddings.embed_query(text)
embed_query(txt) == TopicFrom(txt, 1)

\* embeddings.embed_documents(batch): one vector per text, in input order
embed_documents(batch) == [k \in 1..Len(batch) |-> TopicFrom(batch[k], 1)]

Distance(u, v) == IF u >= v THEN u - v ELSE v - u

Score(u, v) == 10 - 3 * Distance(u, v)

(***************************************************************************)
(* Inputs: the files a client may upload and the queries it may ask.       *)
(***************************************************************************)
RECURSIVE Words(_, _)
Words(lo, hi) ==
    IF lo > hi THEN ""
    ELSE IF lo = hi THEN "w" \o ToString(lo) \o " "
    ELSE LET mid == (lo + hi) \div 2
         IN  Words(lo, mid) \o Words(mid + 1, hi)

Letters ==
    <<"a", "b", "c", "d", "e", "f", "g", "h", "i", "j", "k", "l", "m",
      "n", "o", "p", "q", "r", "s", "t", "u", "v", "w", "x", "y", "z">>

\* running text whose only digit is 1: the words w1aa, w1ab, ...
RECURSIVE DenseWords(_, _)
DenseWords(lo, hi) ==
    IF lo > hi THEN ""
    ELSE IF lo = hi
    THEN "w1" \o Letters[(lo \div 26) + 1] \o Letters[(lo % 26) + 1] \o " "
    ELSE LET mid == (lo + hi) \div 2
         IN  DenseWords(lo, mid) \o DenseWords(mid + 1, hi)

RECURSIVE Spaces(_)
Spaces(n) ==
    IF n <= 0 THEN ""
    ELSE IF n = 1 THEN " "
    ELSE LET half == Spaces(n \div 2)
         IN  half \o half \o (IF n % 2 = 1 THEN " " ELSE "")

\* a layout of single words far apart: each word with the blanks after it
\* is as long as the distance between the starts of two chunks
RECURSIVE SparseWords(_, _)
SparseWords(lo, hi) ==
    IF lo > hi THEN ""
    ELSE IF lo = hi
    THEN LET word == "w" \o ToString(lo)
         IN  word \o Spaces((CHUNK_SIZE - CHUNK_OVERLAP) - Len(word))
    ELSE LET mid == (lo + hi) \div 2
         IN  SparseWords(lo, mid) \o SparseWords(mid + 1, hi)

\* a file: its name, the length of its body in bytes, and what
\* extract_text() returns for each of its pages
File(name, size, pages) == [filename |-> name, size |-> size, pages |-> pages]

\* a document of 105 chunks, five of running text and a hundred of one word
\* each: three embedding batches, two upsert batches
BigFile ==
    File("a.pdf", 400000,
         <<Some(DenseWords(0, 600)), Some(Spaces(300) \o SparseWords(10, 110))>>)

\* a document exactly as large as the limit allows, with two pages that yield
\* no text; its three chunks joined by blank lines are ANSWER_LIMIT characters
MediumFile ==
    File("b.pdf", MAX_FILE_SIZE,
         <<Some(Words(100, 152)), None, Some(""), Some(Words(1000, 1249))>>)

\* a scanned document: no page yields text
ScanFile == File("scan.pdf", 5000, <<None, Some("")>>)

\* a document whose only page yields whitespace
BlankFile == File("blank.pdf", 700, <<Some(" ")>>)

\* a document one byte larger than the limit
HugeFile == File("huge.pdf", MAX_FILE_SIZE + 1, <<Some("w7 w8")>>)

Files == {BigFile, MediumFile, ScanFile, BlankFile, HugeFile}

\* the extractor and the splitter, tabulated over the files
Extracted == [f \in Files |-> ExtractText(f.pages)]

Chunked == [f \in Files |-> split_text(Extracted[f])]

\* QueryRequest(question, filename)
Query(question, filename) == [question |-> question, filename |-> filename]

Queries ==
    { Query("what is w1 ?", None), Query("what is w1 ?", Some("")),
      Query("what is w1 ?", Some("a.pdf")), Query("tell me 7", Some("a.pdf")),
      Query("what is w1 ?", Some("b.pdf")) }

(***************************************************************************)
(* State.                                                                  *)
(***************************************************************************)
VARIABLES
    coll_exists,    \* the vector store holds the collection COLLECTION_NAME
    coll_index,     \* the collection has the keyword index on filename
    coll_points,    \* the records of the collection, in insertion order
    pc,             \* the call the running routine makes next; "idle" between requests
    handler,        \* the routine that runs, or ran last
    file,           \* upload_pdf: the uploaded file
    text,           \* upload_pdf: text
    chunks,         \* upload_pdf: chunks
    vectors,        \* upload_pdf: vectors
    points,         \* upload_pdf: points
    i,              \* upload_pdf: the loop variable of the batch loops
    query,          \* ask_question: query
    qvec,           \* ask_question: qvec
    search_result,  \* ask_question: search_result
    response,       \* the body of the last response
    embed_calls,    \* calls to the embedding provider made by this request
    store_calls,    \* calls to the vector store made by this request
    upserted,       \* the records this request has written, in order
    next_id,        \* the source of fresh record identifiers (uuid4)
    nreq,           \* requests served so far
    faults,         \* external calls that have raised so far
    after_clear,    \* how the request just before this one ended, if it was a
                    \* clear-collection: "success", "error", or "none" otherwise
    schema_ok,      \* no call of the last ensure_collection / clear_collection raised
    clear_mark,     \* identifiers below it were issued before the last clear-collection
    clear_mark_ok   \* identifiers below it were issued before the last successful one

vars ==
    <<coll_exists, coll_index, coll_points, pc, handler, file, text, chunks,
      vectors, points, i, query, qvec, search_result, response, embed_calls,
      store_calls, upserted, next_id, nreq, faults, after_clear, schema_ok, clear_mark,
      clear_mark_ok>>

store == <<coll_exists, coll_index, coll_points>>
upload_locals == <<file, text, chunks, vectors, points, i, upserted>>
ask_locals == <<query, qvec, search_result>>
ghosts == <<after_clear, schema_ok, clear_mark, clear_mark_ok>>

\* a record of the collection (the dicts built at lines 136-142)
Point(id, vector, chunk, filename, idx) ==
    [id |-> id, vector |-> vector,
     payload |-> [text |-> chunk, filename |-> filename, chunk_index |-> idx]]

\* a collection left behind by an earlier process: one record, no index
OldPoint == Point(0, 1, "w1 from an earlier run", "a.pdf", 0)

NoFile == File("", 0, <<>>)
NoQuery == Query("", None)
NoResponse == [message |-> ""]

Init ==
    /\ coll_exists \in BOOLEAN
    /\ coll_index = FALSE
    /\ coll_points = IF coll_exists THEN <<OldPoint>> ELSE <<>>
    /\ pc = "ec_exists"
    /\ handler = "ensure_collection"
    /\ file = NoFile
    /\ text = ""
    /\ chunks = <<>>
    /\ vectors = <<>>
    /\ points = <<>>
    /\ i = 0
    /\ query = NoQuery
    /\ qvec = 0
    /\ search_result = <<>>
    /\ response = NoResponse
    /\ embed_calls = 0
    /\ store_calls = 0
    /\ upserted = <<>>
    /\ next_id = 1
    /\ nreq = 0
    /\ faults = 0
    /\ after_clear = "none"
    /\ schema_ok = TRUE
    /\ clear_mark = 0
    /\ clear_mark_ok = 0

(***************************************************************************)
(* External calls.  A call either returns or raises; Outcomes is the set   *)
(* of results the next call may have.                                      *)
(***************************************************************************)
Outcomes == IF faults < MaxFaults THEN {"ok", "raise"} ELSE {"ok"}

Fault(o) == faults' = IF o = "raise" THEN faults + 1 ELSE faults

\* the text of the exception an external call raises
StoreError == "vector store error"
EmbedError == "embedding provider error"

\* a handler returns: the response is sent and the event loop is free again
Return(body) ==
    /\ pc' = "idle"
    /\ response' = body

ClearError == [status |-> "error",
               message |-> "Error clearing collection: " \o StoreError]

ClearSuccess == [status |-> "success",
                 message |-> "Collection cleared and recreated with index."]

\* the event loop starts the handler h of the next request
Begin(h) ==
    /\ pc = "idle"
    /\ nreq < MaxRequests
    /\ nreq' = nreq + 1
    /\ handler' = h
    /\ after_clear' = IF handler # "clear_collection" THEN "none"
                      ELSE IF response = ClearSuccess THEN "success" ELSE "error"

ResetUpload ==
    /\ file' = NoFile
    /\ text' = ""
    /\ chunks' = <<>>
    /\ vectors' = <<>>
    /\ points' = <<>>
    /\ i' = 0
    /\ upserted' = <<>>

ResetAsk ==
    /\ query' = NoQuery
    /\ qvec' = 0
    /\ search_result' = <<>>

(***************************************************************************)
(* Vector store operations, as the qdrant client performs them.            *)
(***************************************************************************)
\* qdrant.delete_collection(COLLECTION_NAME)
DeleteCollection ==
    /\ coll_exists' = FALSE
    /\ coll_index' = FALSE
    /\ coll_points' = <<>>

\* qdrant.create_collection(COLLECTION_NAME, ...)
CreateCollection ==
    /\ coll_exists' = TRUE
    /\ coll_index' = FALSE
    /\ UNCHANGED coll_points

\* qdrant.create_payload_index(COLLECTION_NAME, "filename", KEYWORD)
CreatePayloadIndex ==
    /\ coll_index' = TRUE
    /\ UNCHANGED <<coll_exists, coll_points>>

(***************************************************************************)
(* ensure_collection, run once when the module is loaded (lines 37-63).    *)
(***************************************************************************)
\* line 39: qdrant.collection_exists
ec_exists ==
    /\ pc = "ec_exists"
    /\ \E o \in Outcomes :
        /\ Fault(o)
        /\ pc' = IF o = "raise" THEN "idle"
                 ELSE IF coll_exists THEN "ec_delete" ELSE "ec_create"
        /\ schema_ok' = (o = "ok")
    /\ store_calls' = store_calls + 1
    /\ UNCHANGED <<store, handler, upload_locals, ask_locals, response,
                   embed_calls, next_id, nreq, after_clear, clear_mark, clear_mark_ok>>

\* line 41: qdrant.delete_collection
ec_delete ==
    /\ pc = "ec_delete"
    /\ \E o \in Outcomes :
        /\ Fault(o)
        /\ IF o = "ok"
           THEN DeleteCollection /\ pc' = "ec_create" /\ UNCHANGED schema_ok
           ELSE UNCHANGED store /\ pc' = "idle" /\ schema_ok' = FALSE
    /\ store_calls' = store_calls + 1
    /\ UNCHANGED <<handler, upload_locals, ask_locals, response,
                   embed_calls, next_id, nreq, after_clear, clear_mark, clear_mark_ok>>

\* lines 43-47: qdrant.create_collection
ec_create ==
    /\ pc = "ec_create"
    /\ \E o \in Outcomes :
        /\ Fault(o)
        /\ IF o = "ok" /\ ~coll_exists
           THEN CreateCollection /\ pc' = "ec_index" /\ UNCHANGED schema_ok
           ELSE UNCHANGED store /\ pc' = "idle" /\ schema_ok' = FALSE
    /\ store_calls' = store_calls + 1
    /\ UNCHANGED <<handler, upload_locals, ask_locals, response,
                   embed_calls, next_id, nreq, after_clear, clear_mark, clear_mark_ok>>

\* lines 49-59: qdrant.create_payload_index; its exception is printed and dropped
ec_index ==
    /\ pc = "ec_index"
    /\ \E o \in Outcomes :
        /\ Fault(o)
        /\ IF o = "ok" /\ coll_exists
           THEN CreatePayloadIndex /\ UNCHANGED schema_ok
           ELSE UNCHANGED store /\ schema_ok' = FALSE
    /\ pc' = "idle"
    /\ store_calls' = store_calls + 1
    /\ UNCHANGED <<handler, upload_locals, ask_locals, response,
                   embed_calls, next_id, nreq, after_clear, clear_mark, clear_mark_ok>>

(***************************************************************************)
(* DELETE /clear-collection (lines 223-243).                               *)
(***************************************************************************)
\* line 226: qdrant.collection_exists
clear_collection ==
    /\ Begin("clear_collection")
    /\ ResetUpload
    /\ ResetAsk
    /\ \E o \in Outcomes :
        /\ Fault(o)
        /\ schema_ok' = (o = "ok")
        /\ IF o = "raise"
           THEN Return(ClearError) /\ clear_mark' = next_id
           ELSE /\ pc' = IF coll_exists THEN "cc_delete" ELSE "cc_create"
                /\ UNCHANGED <<response, clear_mark>>
    /\ store_calls' = 1
    /\ embed_calls' = 0
    /\ UNCHANGED <<store, next_id, clear_mark_ok>>

\* cc_delete of a clear_collection that answers once the collection is dropped
cc_delete_norecreate ==
    /\ pc = "cc_delete"
    /\ \E o \in Outcomes :
        /\ Fault(o)
        /\ IF o = "ok"
           THEN /\ DeleteCollection
                /\ Return(ClearSuccess)
                /\ clear_mark_ok' = next_id
                /\ UNCHANGED schema_ok
           ELSE /\ UNCHANGED <<store, clear_mark_ok>>
                /\ Return(ClearError)
                /\ schema_ok' = FALSE
    /\ clear_mark' = next_id
    /\ store_calls' = store_calls + 1
    /\ UNCHANGED <<handler, upload_locals, ask_locals, embed_calls, next_id,
                   nreq, after_clear>>

\* line 227: qdrant.delete_collection
cc_delete ==
    /\ pc = "cc_delete"
    /\ \E o \in Outcomes :
        /\ Fault(o)
        /\ IF o = "ok"
           THEN /\ DeleteCollection
                /\ pc' = "cc_create"
                /\ UNCHANGED <<response, schema_ok, clear_mark>>
           ELSE /\ UNCHANGED store
                /\ Return(ClearError)
                /\ schema_ok' = FALSE
                /\ clear_mark' = next_id
    /\ store_calls' = store_calls + 1
    /\ UNCHANGED <<handler, upload_locals, ask_locals, embed_calls, next_id,
                   nreq, after_clear, clear_mark_ok>>

\* cc_create of a clear_collection that answers without creating the index
cc_create_noindex ==
    /\ pc = "cc_create"
    /\ \E o \in Outcomes :
        /\ Fault(o)
        /\ IF o = "ok" /\ ~coll_exists
           THEN /\ CreateCollection
                /\ Return(ClearSuccess)
                /\ clear_mark_ok' = next_id
                /\ UNCHANGED schema_ok
           ELSE /\ UNCHANGED <<store, clear_mark_ok>>
                /\ Return(ClearError)
                /\ schema_ok' = FALSE
    /\ clear_mark' = next_id
    /\ store_calls' = store_calls + 1
    /\ UNCHANGED <<handler, upload_locals, ask_locals, embed_calls, next_id,
                   nreq, after_clear>>

\* lines 229-233: qdrant.create_collection
cc_create ==
    /\ pc = "cc_create"
    /\ \E o \in Outcomes :
        /\ Fault(o)
        /\ IF o = "ok" /\ ~coll_exists
           THEN /\ CreateCollection
                /\ pc' = "cc_index"
                /\ UNCHANGED <<response, schema_ok, clear_mark>>
           ELSE /\ UNCHANGED store
                /\ Return(ClearError)
                /\ schema_ok' = FALSE
                /\ clear_mark' = next_id
    /\ store_calls' = store_calls + 1
    /\ UNCHANGED <<handler, upload_locals, ask_locals, embed_calls, next_id,
                   nreq, after_clear, clear_mark_ok>>

\* lines 235-243: qdrant.create_payload_index, then the success response
cc_index ==
    /\ pc = "cc_index"
    /\ \E o \in Outcomes :
        /\ Fault(o)
        /\ IF o = "ok" /\ coll_exists
           THEN /\ CreatePayloadIndex
                /\ Return(ClearSuccess)
                /\ clear_mark_ok' = next_id
                /\ UNCHANGED schema_ok
           ELSE /\ UNCHANGED store
                /\ Return(ClearError)
                /\ schema_ok' = FALSE
                /\ UNCHANGED clear_mark_ok
    /\ clear_mark' = next_id
    /\ store_calls' = store_calls + 1
    /\ UNCHANGED <<handler, upload_locals, ask_locals, embed_calls, next_id,
                   nreq, after_clear>>

(***************************************************************************)
(* GET / (lines 204-206).                                                  *)
(***************************************************************************)
root ==
    /\ Begin("root")
    /\ ResetUpload
    /\ ResetAsk
    /\ Return([message |-> "PDF Reader API is running successfully!"])
    /\ store_calls' = 0
    /\ embed_calls' = 0
    /\ UNCHANGED <<store, next_id, faults, schema_ok, clear_mark, clear_mark_ok>>

(***************************************************************************)
(* GET /health (lines 209-220).                                            *)
(***************************************************************************)
Unhealthy == [status |-> "unhealthy", error |-> StoreError]

\* line 212: qdrant.get_collections
health_check ==
    /\ Begin("health_check")
    /\ ResetUpload
    /\ ResetAsk
    /\ \E o \in Outcomes :
        /\ Fault(o)
        /\ IF o = "ok"
           THEN pc' = "health_exists" /\ UNCHANGED response
           ELSE Return(Unhealthy)
    /\ store_calls' = 1
    /\ embed_calls' = 0
    /\ UNCHANGED <<store, next_id, schema_ok, clear_mark, clear_mark_ok>>

\* lines 213-218: qdrant.collection_exists, then the response
health_exists ==
    /\ pc = "health_exists"
    /\ \E o \in Outcomes :
        /\ Fault(o)
        /\ IF o = "ok"
           THEN Return([status |-> "healthy",
                        qdrant_connected |-> TRUE,
                        collection_exists |-> coll_exists,
                        total_collections |-> IF coll_exists THEN 1 ELSE 0])
           ELSE Return(Unhealthy)
    /\ store_calls' = store_calls + 1
    /\ UNCHANGED <<store, handler, upload_locals, ask_locals, embed_calls,
                   next_id, nreq, after_clear, schema_ok, clear_mark, clear_mark_ok>>

(***************************************************************************)
(* POST /upload-pdf (lines 94-162).                                        *)
(***************************************************************************)
UploadError(e) == [status |-> "error", message |-> "Error processing PDF: " \o e]

TooLarge == [status |-> "error",
             message |-> "File too large. Max allowed size is 10 MB."]

NoText == [status |-> "error",
           message |-> "No text extracted from PDF. Might be image-only or password-protected."]

NoChunks == [status |-> "error",
             message |-> "No chunks were created from the extracted text."]

\* Oversize with >= in place of >
Oversize_inclusive(f) == f.size >= MAX_FILE_SIZE

\* line 98: the size check on the body read at line 97
Oversize(f) == f.size > MAX_FILE_SIZE

\* s[a:b] of Python for a list
SliceSeq(s, a, b) ==
    LET hi == Min(b, Len(s))
    IN  IF a >= hi THEN <<>> ELSE SubSeq(s, a + 1, hi)

\* line 129: the batch of chunks embedded in the iteration that starts at k
EmbedBatch(cs, k) == SliceSeq(cs, k, k + EMBED_BATCH_SIZE)

\* MoreEmbedBatches of a loop that is left after its first iteration
MoreEmbedBatches_never(cs, k) == FALSE

\* line 128: range() yields another start after k
MoreEmbedBatches(cs, k) == k + EMBED_BATCH_SIZE < Len(cs)

\* lines 134-142: one point per (chunk, vector) pair of zip(chunks, vectors),
\* with fresh identifiers from base on
BuildPoints(cs, vs, filename, base) ==
    [k \in 1..Min(Len(cs), Len(vs)) |->
        Point(base + k - 1, vs[k], cs[k], filename, k - 1)]

\* UpsertBatch with a slice one element short
UpsertBatch_short(ps, k) == SliceSeq(ps, k, k + UPSERT_BATCH_SIZE - 1)

\* line 146: the batch of points upserted in the iteration that starts at k
UpsertBatch(ps, k) == SliceSeq(ps, k, k + UPSERT_BATCH_SIZE)

\* line 145: range() yields another start after k
MoreUpsertBatches(ps, k) == k + UPSERT_BATCH_SIZE < Len(ps)

\* lines 97-124: read the body, check its size, extract, split
upload_pdf(f) ==
    /\ Begin("upload_pdf")
    /\ ResetAsk
    /\ file' = f
    /\ vectors' = <<>>
    /\ points' = <<>>
    /\ i' = 0
    /\ upserted' = <<>>
    /\ embed_calls' = 0
    /\ store_calls' = 0
    /\ IF Oversize(f)
       THEN Return(TooLarge) /\ text' = "" /\ chunks' = <<>>
       ELSE /\ text' = Extracted[f]
            /\ IF strip(text') = ""
               THEN Return(NoText) /\ chunks' = <<>>
               ELSE /\ chunks' = Chunked[f]
                    /\ IF chunks' = <<>>
                       THEN Return(NoChunks)
                       ELSE pc' = "embed" /\ UNCHANGED response
    /\ UNCHANGED <<store, next_id, faults, schema_ok, clear_mark, clear_mark_ok>>

\* lines 128-142: one iteration of the embedding loop; after the last one the
\* points are built
upload_embed ==
    /\ pc = "embed"
    /\ embed_calls' = embed_calls + 1
    /\ \E o \in Outcomes :
        /\ Fault(o)
        /\ IF o = "raise"
           THEN /\ Return(UploadError(EmbedError))
                /\ UNCHANGED <<vectors, points, i, next_id>>
           ELSE /\ vectors' = vectors \o embed_documents(EmbedBatch(chunks, i))
                /\ UNCHANGED response
                /\ IF MoreEmbedBatches(chunks, i)
                   THEN /\ i' = i + EMBED_BATCH_SIZE
                        /\ pc' = "embed"
                        /\ UNCHANGED <<points, next_id>>
                   ELSE /\ points' = BuildPoints(chunks, vectors', file.filename, next_id)
                        /\ next_id' = next_id + Len(points')
                        /\ i' = 0
                        /\ pc' = "upsert"
    /\ UNCHANGED <<store, handler, file, text, chunks, upserted, ask_locals,
                   store_calls, nreq, ghosts>>

\* lines 145-158: one iteration of the upsert loop; after the last one the
\* success response
upload_upsert ==
    /\ pc = "upsert"
    /\ store_calls' = store_calls + 1
    /\ \E o \in Outcomes :
        /\ Fault(o)
        /\ IF o = "ok" /\ coll_exists
           THEN /\ coll_points' = coll_points \o UpsertBatch(points, i)
                /\ upserted' = upserted \o UpsertBatch(points, i)
                /\ IF MoreUpsertBatches(points, i)
                   THEN /\ i' = i + UPSERT_BATCH_SIZE
                        /\ pc' = "upsert"
                        /\ UNCHANGED response
                   ELSE /\ UNCHANGED i
                        /\ Return([status |-> "success",
                                   chunks_stored |-> Len(points),
                                   filename |-> file.filename,
                                   text_length |-> Len(text),
                                   pages_processed |-> Len(file.pages)])
           ELSE /\ Return(UploadError(StoreError))
                /\ UNCHANGED <<coll_points, upserted, i>>
    /\ UNCHANGED <<coll_exists, coll_index, handler, file, text, chunks, vectors,
                   points, ask_locals, embed_calls, next_id, nreq, ghosts>>

(***************************************************************************)
(* POST /ask (lines 165-201).                                              *)
(***************************************************************************)
AskError(e) == [status |-> "error", message |-> "Error processing query: " \o e]

Guidance ==
    [answer |-> "No PDF filename provided. Upload a PDF first (frontend should pass filename).",
     sources_found |-> 0]

NothingFound ==
    [answer |-> "No relevant information found in that PDF.", sources_found |-> 0]

Preamble == "Based on the PDF content, here's what I found:\n\n"

Reverse(s) == [k \in 1..Len(s) |-> s[Len(s) + 1 - k]]

\* the records of ps at topic distance d of qv, nearest first; records of equal
\* score come in insertion order or in its reverse
RECURSIVE Ranked(_, _, _, _)
Ranked(ps, qv, d, rev) ==
    IF d > 9 THEN <<>>
    ELSE LET level == SelectSeq(ps, LAMBDA p : Distance(qv, p.vector) = d)
         IN  (IF rev THEN Reverse(level) ELSE level) \o Ranked(ps, qv, d + 1, rev)

\* Search without the query_filter on filename
Search_unfiltered(ps, qv, filename, rev) ==
    LET matching == SelectSeq(ps, LAMBDA p : Score(qv, p.vector) >= SCORE_THRESHOLD)
    IN  SliceSeq(Ranked(matching, qv, 0, rev), 0, SEARCH_LIMIT)

\* qdrant.search(query_vector, limit, score_threshold, query_filter) of
\* lines 178-186
Search(ps, qv, filename, rev) ==
    LET matching == SelectSeq(ps, LAMBDA p :
                        /\ p.payload.filename = filename
                        /\ Score(qv, p.vector) >= SCORE_THRESHOLD)
    IN  SliceSeq(Ranked(matching, qv, 0, rev), 0, SEARCH_LIMIT)

\* lines 192-193
Context(hits) == join("\n\n", [k \in 1..Len(hits) |-> hits[k].payload.text])

\* Answer with >= in place of > in the test that appends the ellipsis
Answer_inclusive(context) ==
    Preamble \o Slice(context, 0, ANSWER_LIMIT)
             \o (IF Len(context) >= ANSWER_LIMIT THEN "..." ELSE "")

\* line 195
Answer(context) ==
    Preamble \o Slice(context, 0, ANSWER_LIMIT)
             \o (IF Len(context) > ANSWER_LIMIT THEN "..." ELSE "")

\* lines 168-175: the filename check, then embeddings.embed_query
ask_question(q) ==
    /\ Begin("ask_question")
    /\ ResetUpload
    /\ query' = q
    /\ search_result' = <<>>
    /\ store_calls' = 0
    /\ IF ~Truthy(q.filename)
       THEN /\ Return(Guidance)
            /\ embed_calls' = 0
            /\ qvec' = 0
            /\ UNCHANGED faults
       ELSE /\ embed_calls' = 1
            /\ \E o \in Outcomes :
                /\ Fault(o)
                /\ IF o = "ok"
                   THEN /\ qvec' = embed_query(q.question)
                        /\ pc' = "search"
                        /\ UNCHANGED response
                   ELSE /\ Return(AskError(EmbedError))
                        /\ qvec' = 0
    /\ UNCHANGED <<store, next_id, schema_ok, clear_mark, clear_mark_ok>>

\* lines 178-197: qdrant.search, then the answer
ask_search ==
    /\ pc = "search"
    /\ store_calls' = store_calls + 1
    /\ \E o \in Outcomes, rev \in BOOLEAN :
        /\ Fault(o)
        /\ IF o = "ok" /\ coll_exists
           THEN /\ search_result' = Search(coll_points, qvec, query.filename[1], rev)
                /\ IF search_result' = <<>>
                   THEN Return(NothingFound)
                   ELSE Return([answer |-> Answer(Context(search_result')),
                                sources_found |-> Len(search_result'),
                                context_length |-> Len(Context(search_result'))])
           ELSE /\ Return(AskError(StoreError))
                /\ UNCHANGED search_result
    /\ UNCHANGED <<store, handler, upload_locals, query, qvec, embed_calls,
                   next_id, nreq, ghosts>>

Next ==
    \/ ec_exists
    \/ ec_delete
    \/ ec_create
    \/ ec_index
    \/ root
    \/ health_check
    \/ health_exists
    \/ clear_collection
    \/ cc_delete
    \/ cc_create
    \/ cc_index
    \/ \E f \in Files : upload_pdf(f)
    \/ upload_embed
    \/ upload_upsert
    \/ \E q \in Queries : ask_question(q)
    \/ ask_search

Spec == Init /\ [][Next]_vars

(***************************************************************************)
(* Properties.                                                             *)
(***************************************************************************)
UploadDone == handler = "upload_pdf" /\ pc = "idle"
AskDone == handler = "ask_question" /\ pc = "idle"
HealthDone == handler = "health_check" /\ pc = "idle"
NoFault == faults = 0
SourcesFound == AskDone /\ "sources_found" \in DOMAIN response /\ response.sources_found > 0

\* C1: an upload that answers "success" reports as chunks_stored the number of
\* chunks the splitter produced, and the records it wrote carry the
\* chunk_index values 0 .. N-1, each exactly once, the record with index idx
\* holding the text of chunk idx in split order.
C1_ChunksStoredInSplitOrder ==
    (UploadDone /\ response.status = "success") =>
        LET N == Len(chunks)
        IN  /\ chunks = Chunked[file]
            /\ response.chunks_stored = N
            /\ Len(upserted) = N
            /\ \A k \in 1..Len(upserted) :
                  \E j \in 1..Len(coll_points) : coll_points[j] = upserted[k]
            /\ \A idx \in 0..(N - 1) :
                  LET holders == {k \in 1..Len(upserted) :
                                     upserted[k].payload.chunk_index = idx}
                  IN  /\ Cardinality(holders) = 1
                      /\ \A k \in holders : upserted[k].payload.text = chunks[idx + 1]

\* a successful upload of more than 100 chunks: three embedding batches of 50
\* and two upsert batches of 64
C1_Witness ==
    /\ UploadDone
    /\ response.status = "success"
    /\ Len(chunks) > 2 * 50
    /\ Len(chunks) > 64
    /\ embed_calls = 3
    /\ store_calls = 2

\* C2: an upload whose body is larger than 10 MiB gets the oversize error
\* response, having called neither the embedding provider nor the vector
\* store; a body of exactly 10 MiB is not answered with the oversize error.
C2_OversizeRejectedWithoutCalls ==
    handler = "upload_pdf" =>
        /\ file.size > 10 * 1024 * 1024 =>
              /\ pc = "idle"
              /\ response = [status |-> "error",
                             message |-> "File too large. Max allowed size is 10 MB."]
              /\ embed_calls = 0
              /\ store_calls = 0
              /\ upserted = <<>>
        /\ (file.size = 10 * 1024 * 1024 /\ pc = "idle") =>
              (response.status = "error" =>
                  response.message # "File too large. Max allowed size is 10 MB.")

\* an oversize upload is rejected while the store holds records
C2_Witness ==
    /\ UploadDone
    /\ file.size > 10 * 1024 * 1024
    /\ response.status = "error"
    /\ coll_points # <<>>

\* no page of f yields anything but whitespace
NoExtractableText(f) ==
    \A n \in 1..Len(f.pages) : f.pages[n] = None \/ strip(f.pages[n][1]) = ""

\* C3: an upload whose pages yield no text, or whitespace only, calls neither
\* the embedding provider nor the vector store and is answered with the
\* empty-extraction error response (stated for the runs in which no external
\* call has raised).
C3_NoTextRejectedWithoutCalls ==
    (/\ handler = "upload_pdf"
     /\ NoFault
     /\ file.size <= 10 * 1024 * 1024
     /\ NoExtractableText(file)) =>
        /\ embed_calls = 0
        /\ store_calls = 0
        /\ upserted = <<>>
        /\ pc = "idle" =>
              response = [status |-> "error",
                          message |-> "No text extracted from PDF. Might be image-only or password-protected."]

\* C4: an ask request whose filename is absent or empty answers the guidance
\* message with sources_found 0 and calls neither the embedding provider nor
\* the vector store.
C4_NoFilenameGuidance ==
    (handler = "ask_question" /\ (query.filename = None \/ query.filename = Some(""))) =>
        /\ pc = "idle"
        /\ response.sources_found = 0
        /\ response.answer =
              "No PDF filename provided. Upload a PDF first (frontend should pass filename)."
        /\ embed_calls = 0
        /\ store_calls = 0

\* an ask request with the empty string as filename, while the store holds records
C4_Witness ==
    /\ AskDone
    /\ query.filename = Some("")
    /\ coll_points # <<>>

\* the texts of the found chunks, joined by blank lines
FoundContext == join("\n\n", [k \in 1..Len(search_result) |-> search_result[k].payload.text])

\* the context as the claims describe the answer: cut to 2000 characters with
\* the ellipsis when longer, unmodified otherwise
CutContext ==
    IF Len(FoundContext) > 2000
    THEN SubSeq(FoundContext, 1, 2000) \o "..."
    ELSE FoundContext

\* C5 as stated: the answer of an ask request that finds sources is the
\* context cut to 2000 characters with "..." appended when it is longer, and
\* the context itself otherwise; context_length is its untruncated length
\* (stated for the runs in which no external call has raised).
C5_Original ==
    (SourcesFound /\ NoFault) =>
        /\ response.answer = CutContext
        /\ response.context_length = Len(FoundContext)

\* C5 as amended: the answer is the fixed preamble followed by the context
\* cut to 2000 characters with "..." appended when it is longer, and by the
\* context itself otherwise; context_length is its untruncated length.
C5_AnswerTruncation ==
    SourcesFound =>
        /\ response.answer =
              "Based on the PDF content, here's what I found:\n\n" \o CutContext
        /\ Len(FoundContext) > 2000 =>
              Len(response.answer) = Len("Based on the PDF content, here's what I found:\n\n") + 2003
        /\ response.context_length = Len(FoundContext)

\* an ask request whose context is longer than 2000 characters
C5_Witness ==
    /\ SourcesFound
    /\ response.context_length > 2000
    /\ response.sources_found = 5

\* C6 as stated: a /health request that follows a completed clear-collection
\* request reports collection_exists true, and no ask request returns a
\* chunk stored before a completed clear-collection request.
C6_Original ==
    /\ (HealthDone /\ after_clear # "none" /\ response.status = "healthy") =>
          response.collection_exists = TRUE
    /\ AskDone => \A k \in 1..Len(search_result) : search_result[k].id >= clear_mark

\* C6 as amended: a /health request that answers healthy right after a
\* clear-collection request that answered success reports collection_exists
\* true, and no ask request returns a chunk stored before a clear-collection
\* request that answered success.
C6_ClearThenHealth ==
    /\ (HealthDone /\ after_clear = "success" /\ response.status = "healthy") =>
          response.collection_exists = TRUE
    /\ AskDone => \A k \in 1..Len(search_result) : search_result[k].id >= clear_mark_ok
    /\ (pc = "idle" /\ handler = "clear_collection" /\ response.status = "success") =>
          /\ coll_exists
          /\ coll_points = <<>>

\* a /health request right after a successful clear that removed stored chunks
C6_Witness ==
    /\ HealthDone
    /\ after_clear = "success"
    /\ response.status = "healthy"
    /\ clear_mark_ok > 1

\* every found record is a record of the collection under the asked filename,
\* and no record is found twice
HitsFromFile ==
    /\ Len(search_result) <= 5
    /\ \A k \in 1..Len(search_result) :
          /\ \E j \in 1..Len(coll_points) : coll_points[j] = search_result[k]
          /\ search_result[k].payload.filename = query.filename[1]
          /\ \A m \in 1..Len(search_result) :
                search_result[m].id = search_result[k].id => m = k

\* C7 as stated: the answer of an ask request that finds sources consists of
\* nothing but text of at most 5 chunks stored under the asked filename, in
\* search order (stated for the runs in which no external call has raised).
C7_Original ==
    (SourcesFound /\ NoFault) =>
        /\ HitsFromFile
        /\ \/ response.answer = FoundContext
           \/ /\ Len(response.answer) <= Len(FoundContext)
              /\ response.answer = SubSeq(FoundContext, 1, Len(response.answer))

\* C7 as amended: the answer is the fixed preamble followed by the texts of
\* at most 5 records stored under the asked filename, in search order, joined
\* by blank lines, in full or cut to a prefix followed by "..."; no record
\* stored under another filename contributes to it.
C7_AnswerFromStoredChunks ==
    SourcesFound =>
        LET pre  == "Based on the PDF content, here's what I found:\n\n"
            body == SubSeq(response.answer, Len(pre) + 1, Len(response.answer))
        IN  /\ HitsFromFile
            /\ SubSeq(response.answer, 1, Len(pre)) = pre
            /\ \/ body = FoundContext
               \/ /\ Len(body) - 3 < Len(FoundContext)
                  /\ body = SubSeq(FoundContext, 1, Len(body) - 3) \o "..."

\* an ask request answered from one file while the store also holds records
\* of another
C7_Witness ==
    /\ SourcesFound
    /\ \E j \in 1..Len(coll_points) : coll_points[j].payload.filename # query.filename[1]

\* C8: an upload calls the vector store only after every embedding batch has
\* returned, and an upload whose embedding call raises answers an error
\* having made no upsert call and written no record.
C8_UpsertAfterAllEmbeddings ==
    handler = "upload_pdf" =>
        /\ store_calls > 0 =>
              /\ Len(vectors) = Len(chunks)
              /\ embed_calls * 50 >= Len(chunks)
              /\ (embed_calls - 1) * 50 < Len(chunks)
        /\ upserted # <<>> => store_calls > 0
        /\ (/\ pc = "idle"
            /\ response.status = "error"
            /\ response.message = "Error processing PDF: embedding provider error") =>
              /\ store_calls = 0
              /\ upserted = <<>>
              /\ \A j \in 1..Len(coll_points) : coll_points[j].id < next_id

\* the second of three embedding batches raises
C8_Witness ==
    /\ UploadDone
    /\ response.status = "error"
    /\ response.message = "Error processing PDF: embedding provider error"
    /\ Len(chunks) > 2 * 50
    /\ embed_calls = 2

\* the pages of ps that yield text, by 1-based page number
TextPages(ps) ==
    SelectSeq([n \in 1..Len(ps) |-> n], LAMBDA n : ps[n] # None /\ ps[n][1] # "")

\* the marker of page n as the extractor writes it
MarkerLine(n) == "\n--- Page " \o ToString(n) \o " ---\n"

\* C9 as stated: the extracted text holds, for every page in page order, the
\* marker of the page, followed by the page's text and a newline when the
\* page yields text and by nothing when it does not (stated for the runs in
\* which no external call has raised).
C9_Original ==
    (handler = "upload_pdf" /\ NoFault /\ file.size <= 10 * 1024 * 1024) =>
        text = join("", [n \in 1..Len(file.pages) |->
                            MarkerLine(n) \o
                            (IF file.pages[n] # None /\ file.pages[n][1] # ""
                             THEN file.pages[n][1] \o "\n" ELSE "")])

\* C9 as amended: the extracted text holds, for every page that yields
\* non-empty text, in page order, the marker with the page's 1-based number
\* followed by the page's text and a newline; a page that yields empty or
\* absent text contributes nothing, neither marker nor text.
C9_MarkersOfTextPages ==
    (handler = "upload_pdf" /\ file.size <= 10 * 1024 * 1024) =>
        LET kept == TextPages(file.pages)
        IN  text = join("", [k \in 1..Len(kept) |->
                                MarkerLine(kept[k]) \o file.pages[kept[k]][1] \o "\n"])

\* an upload whose second and third page yield no text and whose fourth does
C9_Witness ==
    /\ handler = "upload_pdf"
    /\ Len(file.pages) = 4
    /\ file.pages[2] = None
    /\ file.pages[3] = Some("")
    /\ text # ""

====
